---- MODULE Spec2Model ----
(***************************************************************************)
(* Model of maud_lints/src/util.rs: the four lint utilities                *)
(* match_def_path, match_marker_type, extract_strings and extract_attrs,   *)
(* as pure functions over a HIR expression tree.                           *)
(*                                                                         *)
(* The HIR is modelled by records carrying a "node" tag.  The typeck       *)
(* tables are folded into the tree: an ExprPath node carries the Def that  *)
(* cx.tables.qpath_def returns for it, and a DefId is represented by the   *)
(* absolute item path that cx.tcx.push_item_path pushes for it.  Strings   *)
(* are sequences of characters, spans are byte ranges [lo, hi) within one  *)
(* syntax context.                                                         *)
(***************************************************************************)
EXTENDS Integers, Sequences, FiniteSets, TLC

VARIABLES expr, marker_type, def_id, path, op, result

vars == <<expr, marker_type, def_id, path, op, result>>

inputs == <<expr, marker_type, def_id, path>>

(***************************************************************************)
(* Bounds of the explored input space.                                     *)
(***************************************************************************)
MaxPos == 4

MaxElems == 3

MaxArgs == 2

MaxStmts == 3

MaxPathLen == 3

(***************************************************************************)
(* Option values, and the outcome of a rustc `bug!` (a panic, reported as  *)
(* an internal compiler error).                                            *)
(***************************************************************************)
None == [tag |-> "None"]

Some(v) == [tag |-> "Some", val |-> v]

Fault == [tag |-> "Fault"]

(***************************************************************************)
(* HIR node constructors.                                                  *)
(***************************************************************************)
Span(lo, hi) == [lo |-> lo, hi |-> hi]

LitStr(s, style, span) ==
    [node |-> "ExprLit", lit |-> [kind |-> "Str", style |-> style, s |-> s, span |-> span]]

LitInt(span) ==
    [node |-> "ExprLit", lit |-> [kind |-> "Int", style |-> "NA", s |-> <<"1">>, span |-> span]]

Def(kind, names) == [kind |-> kind, names |-> names]

ExprPath(def) == [node |-> "ExprPath", def |-> def]

ExprCall(callee, args) == [node |-> "ExprCall", callee |-> callee, args |-> args]

ExprMethodCall(args) == [node |-> "ExprMethodCall", args |-> args]

ExprField(base) == [node |-> "ExprField", base |-> base]

ExprAddrOf(mutbl, inner) == [node |-> "ExprAddrOf", mutbl |-> mutbl, inner |-> inner]

ExprArray(elems) == [node |-> "ExprArray", elems |-> elems]

Stmt(kind, e) == [kind |-> kind, expr |-> e]

ExprBlock(stmts, tail) == [node |-> "ExprBlock", stmts |-> stmts, tail |-> tail]

(***************************************************************************)
(* Def::def_id of the host compiler, as called at util.rs line 31: the     *)
(* definition kinds that name an item carry a DefId; for a local variable, *)
(* a captured variable (upvar) or a resolution error there is none and     *)
(* def_id() raises `bug!("attempted .def_id() on invalid def")`.           *)
(***************************************************************************)
ItemDefKinds == {"Fn", "StructCtor"}

ValueDefKinds == {"Local", "Upvar", "Err"}

def_id_of(def) ==
    IF def.kind \in ItemDefKinds THEN Some(def.names) ELSE Fault

qpath_def(path_expr) == path_expr.def

(***************************************************************************)
(* match_def_path: AbsolutePathBuffer collects the pushed segment names,   *)
(* then lengths are compared and the zipped pairs are compared.            *)
(***************************************************************************)
push_item_path(id) == id

Min(a, b) == IF a < b THEN a ELSE b

Max(a, b) == IF a > b THEN a ELSE b

match_def_path_nolen(id, p) ==
    LET names == push_item_path(id)
    IN  \A i \in 1..Min(Len(names), Len(p)) : names[i] = p[i]

match_def_path(id, p) ==
    LET names == push_item_path(id)
    IN  /\ Len(names) = Len(p)
        /\ \A i \in 1..Min(Len(names), Len(p)) : names[i] = p[i]

(***************************************************************************)
(* match_marker_type: the if_chain of lines 28-38.                         *)
(***************************************************************************)
match_marker_type_anykind(e, kind) ==
    IF e.node # "ExprCall" THEN None
    ELSE IF e.callee.node # "ExprPath" THEN None
    ELSE LET id == def_id_of(qpath_def(e.callee))
         IN  IF id.tag = "Fault" THEN Fault
             ELSE IF match_def_path(id.val, <<"maud", "marker", "attribute">>)
                  THEN Some(e.args)
                  ELSE None

match_marker_type(e, kind) ==
    IF e.node # "ExprCall" THEN None
    ELSE IF e.callee.node # "ExprPath" THEN None
    ELSE LET id == def_id_of(qpath_def(e.callee))
         IN  IF id.tag = "Fault" THEN Fault
             ELSE IF match_def_path(id.val, <<"maud", "marker", kind>>)
                  THEN Some(e.args)
                  ELSE None

(***************************************************************************)
(* Span::to: the span from the smaller start to the larger end.            *)
(***************************************************************************)
to_end_only(a, b) == b

to(a, b) == Span(Min(a.lo, b.lo), Max(a.hi, b.hi))

(***************************************************************************)
(* extract_strings: the shape test of lines 68-76, the loop of lines 79-94 *)
(* with its accumulators content and span, and the final map of line 95.   *)
(***************************************************************************)
IsCookedStr(e) ==
    /\ e.node = "ExprLit"
    /\ e.lit.kind = "Str"
    /\ e.lit.style = "Cooked"

RECURSIVE extract_loop(_, _, _, _)
extract_loop(args, i, content, span) ==
    IF i > Len(args)
    THEN IF span.tag = "Some" THEN Some(<<content, span.val>>) ELSE None
    ELSE IF IsCookedStr(args[i])
         THEN extract_loop(args, i + 1, content \o args[i].lit.s,
                           IF span.tag = "Some"
                           THEN Some(to(span.val, args[i].lit.span))
                           ELSE Some(args[i].lit.span))
         ELSE None

RECURSIVE extract_loop_skip(_, _, _, _)
extract_loop_skip(args, i, content, span) ==
    IF i > Len(args)
    THEN IF span.tag = "Some" THEN Some(<<content, span.val>>) ELSE None
    ELSE IF IsCookedStr(args[i])
         THEN extract_loop_skip(args, i + 1, content \o args[i].lit.s,
                                IF span.tag = "Some"
                                THEN Some(to(span.val, args[i].lit.span))
                                ELSE Some(args[i].lit.span))
         ELSE extract_loop_skip(args, i + 1, content, span)

IsBorrowedArray(e) ==
    /\ e.node = "ExprAddrOf"
    /\ e.mutbl = "MutImmutable"
    /\ e.inner.node = "ExprArray"

extract_strings_skip(e) ==
    IF IsBorrowedArray(e)
    THEN extract_loop_skip(e.inner.elems, 1, <<>>, None)
    ELSE None

extract_strings_dummy_span(e) ==
    IF IsBorrowedArray(e)
    THEN extract_loop(e.inner.elems, 1, <<>>, Some(Span(0, 0)))
    ELSE None

extract_strings(e) ==
    IF IsBorrowedArray(e)
    THEN extract_loop(e.inner.elems, 1, <<>>, None)
    ELSE None

(***************************************************************************)
(* extract_attrs: the block gate of lines 102-106, the closure given to    *)
(* filter_map (lines 107-115) and the collect into a Vec.  A panic inside  *)
(* the closure unwinds through the iterator: no list is produced.          *)
(***************************************************************************)
get0(args) == IF Len(args) >= 1 THEN Some(args[1]) ELSE None

and_then_extract_strings(o) == IF o.tag = "Some" THEN extract_strings(o.val) ELSE None

stmt_attr_last_arg(stmt) ==
    IF stmt.kind # "StmtSemi" THEN None
    ELSE LET m == match_marker_type(stmt.expr, "attribute")
         IN  IF m.tag = "Fault" THEN Fault
             ELSE IF m.tag = "Some"
                  THEN IF Len(m.val) >= 1 THEN extract_strings(m.val[Len(m.val)]) ELSE None
                  ELSE None

stmt_attr_any_stmt(stmt) ==
    IF stmt.kind \notin {"StmtSemi", "StmtExpr"} THEN None
    ELSE LET m == match_marker_type(stmt.expr, "attribute")
         IN  IF m.tag = "Fault" THEN Fault
             ELSE IF m.tag = "Some"
                  THEN and_then_extract_strings(get0(m.val))
                  ELSE None

stmt_attr(stmt) ==
    IF stmt.kind # "StmtSemi" THEN None
    ELSE LET m == match_marker_type(stmt.expr, "attribute")
         IN  IF m.tag = "Fault" THEN Fault
             ELSE IF m.tag = "Some"
                  THEN and_then_extract_strings(get0(m.val))
                  ELSE None

RECURSIVE filter_map_collect(_, _, _)
filter_map_collect(stmts, i, acc) ==
    IF i > Len(stmts) THEN Some(acc)
    ELSE LET r == stmt_attr(stmts[i])
         IN  IF r.tag = "Fault" THEN Fault
             ELSE IF r.tag = "Some"
                  THEN filter_map_collect(stmts, i + 1, Append(acc, r.val))
                  ELSE filter_map_collect(stmts, i + 1, acc)

extract_attrs(e) ==
    IF e.node # "ExprBlock" THEN None
    ELSE filter_map_collect(e.stmts, 1, <<>>)

(***************************************************************************)
(* Input space.  Sequences of bounded length over a set.                   *)
(***************************************************************************)
SeqsUpTo(S, lo, n) == UNION {[1..k -> S] : k \in lo..n}

PathSegments == {"maud", "marker", "attribute"}

CalleeSegments == {"maud", "marker", "attribute", "text", "other"}

MarkerTypes == {"attribute", "text"}

Spans == {Span(lo, hi) : <<lo, hi>> \in {q \in (0..MaxPos) \X (0..MaxPos) : q[1] < q[2]}}

\* The elements of an array literal lie in textual order and do not overlap.
OrderedSpans(n) ==
    {s \in [1..n -> Spans] : \A i \in 1..(n - 1) : s[i].hi <= s[i + 1].lo}

Texts == {<<"a", "b">>, <<"c", "d">>}

ElemKinds == {<<"Cooked", t>> : t \in Texts} \cup {<<"Raw", <<"r">>>>, <<"Int", <<>>>>, <<"Path", <<>>>>}

Elem(k, span) ==
    CASE k[1] = "Cooked" -> LitStr(k[2], "Cooked", span)
      [] k[1] = "Raw"    -> LitStr(k[2], "Raw", span)
      [] k[1] = "Int"    -> LitInt(span)
      [] OTHER           -> ExprPath(Def("Local", <<>>))

Arrays ==
    UNION {{ExprArray([i \in 1..n |-> Elem(ks[i], sp[i])]) :
                <<ks, sp>> \in [1..n -> ElemKinds] \X OrderedSpans(n)} : n \in 0..MaxElems}

StringExprs ==
    {ExprAddrOf(m, a) : <<m, a>> \in {"MutImmutable", "MutMutable"} \X Arrays}

\* Argument expressions of a call, laid out at byte offset base.
ArgForms == {"one", "two", "num", "empty", "mut", "lit"}

Digits == <<"1", "2", "3", "4", "5", "6", "7", "8", "9">>

Key(i) == <<"k", Digits[i]>>

ArgExpr(form, i, base) ==
    LET k == LitStr(Key(i), "Cooked", Span(base, base + 1))
        v == LitStr(<<"v">>, "Cooked", Span(base + 1, base + 2))
    IN  CASE form = "one"   -> ExprAddrOf("MutImmutable", ExprArray(<<k>>))
          [] form = "two"   -> ExprAddrOf("MutImmutable", ExprArray(<<k, v>>))
          [] form = "num"   -> ExprAddrOf("MutImmutable", ExprArray(<<k, LitInt(Span(base + 1, base + 2))>>))
          [] form = "empty" -> ExprAddrOf("MutImmutable", ExprArray(<<>>))
          [] form = "mut"   -> ExprAddrOf("MutMutable", ExprArray(<<k>>))
          [] OTHER          -> k

ArgList(forms, i) ==
    [j \in 1..Len(forms) |-> ArgExpr(forms[j], i, 2 * ((i - 1) * (MaxArgs + 1) + (j - 1)))]

CalleeForms == {"attribute", "text", "ctor", "local", "upvar", "field"}

Callee(c) ==
    CASE c = "attribute" -> ExprPath(Def("Fn", <<"maud", "marker", "attribute">>))
      [] c = "text"      -> ExprPath(Def("Fn", <<"maud", "marker", "text">>))
      [] c = "ctor"      -> ExprPath(Def("StructCtor", <<"other", "Attr">>))
      [] c = "local"     -> ExprPath(Def("Local", <<>>))
      [] c = "upvar"     -> ExprPath(Def("Upvar", <<>>))
      [] OTHER           -> ExprField(ExprPath(Def("Local", <<>>)))

Shape(kind, callee, forms) == [kind |-> kind, callee |-> callee, forms |-> forms]

ShapeExpr(sh, i) ==
    CASE sh.callee = "lit"    -> LitInt(Span(2 * (i - 1) * (MaxArgs + 1), 2 * (i - 1) * (MaxArgs + 1) + 1))
      [] sh.callee = "method" -> ExprMethodCall(ArgList(sh.forms, i))
      [] OTHER                -> ExprCall(Callee(sh.callee), ArgList(sh.forms, i))

StmtKinds == {"StmtSemi", "StmtExpr", "StmtDecl"}

StmtAt(sh, i) == Stmt(sh.kind, ShapeExpr(sh, i))

Block(shapes, tail) == ExprBlock([i \in 1..Len(shapes) |-> StmtAt(shapes[i], i)], tail)

Tails == {None, Some(ShapeExpr(Shape("StmtExpr", "attribute", <<"one">>), MaxStmts + 1))}

\* Statements of the blocks explored at full length.
SeqShapes ==
    {Shape("StmtSemi", "attribute", <<"one">>),
     Shape("StmtSemi", "attribute", <<>>),
     Shape("StmtSemi", "attribute", <<"num">>),
     Shape("StmtSemi", "text", <<"one">>),
     Shape("StmtSemi", "local", <<"one">>),
     Shape("StmtSemi", "lit", <<>>),
     Shape("StmtExpr", "attribute", <<"one">>),
     Shape("StmtDecl", "attribute", <<"one">>)}

\* Every statement shape, explored alone and between two plain attributes.
AllShapes ==
    {Shape(k, c, f) : <<k, c, f>> \in StmtKinds \X (CalleeForms \cup {"lit", "method"})
                                        \X SeqsUpTo(ArgForms, 0, MaxArgs)}

GoodShape == Shape("StmtSemi", "attribute", <<"one">>)

Around(sh) == {<<sh>>, <<GoodShape, sh, GoodShape>>}

BlockExprs ==
    {Block(shapes, t) : <<shapes, t>> \in SeqsUpTo(SeqShapes, 0, MaxStmts) \X Tails}
    \cup {Block(shapes, None) : shapes \in UNION {Around(sh) : sh \in AllShapes}}

\* Candidate marker calls: every callee resolution, with short argument lists.
CalleeExprs ==
    {ExprPath(Def(k, p)) : <<k, p>> \in ItemDefKinds \X SeqsUpTo(CalleeSegments, 1, MaxPathLen)}
    \cup {ExprPath(Def(k, <<>>)) : k \in ValueDefKinds}
    \cup {Callee("field")}

CallArgs == {ArgList(f, 1) : f \in SeqsUpTo({"one"}, 0, MaxArgs)}

MarkerExprs ==
    {ExprCall(c, a) : <<c, a>> \in CalleeExprs \X CallArgs}
    \cup {ExprMethodCall(a) : a \in CallArgs}
    \cup {LitStr(Key(1), "Cooked", Span(0, 1)), LitInt(Span(0, 1)),
          ExprArray(<<LitStr(Key(1), "Cooked", Span(0, 1))>>),
          ExprAddrOf("MutImmutable", LitStr(Key(1), "Cooked", Span(0, 1)))}

DefaultExpr == LitInt(Span(0, 1))

DefIds == SeqsUpTo(PathSegments, 1, MaxPathLen)

Paths == SeqsUpTo(PathSegments, 0, MaxPathLen)

(***************************************************************************)
(* The state: the arguments of a call into the module, the function last   *)
(* called and what it returned.                                            *)
(***************************************************************************)
Init ==
    /\ \/ /\ \/ expr \in StringExprs /\ marker_type = "attribute"
             \/ expr \in BlockExprs /\ marker_type = "attribute"
             \/ expr \in MarkerExprs /\ marker_type \in MarkerTypes
          /\ def_id = <<"maud">>
          /\ path = <<>>
       \/ /\ expr = DefaultExpr
          /\ marker_type = "attribute"
          /\ def_id \in DefIds
          /\ path \in Paths
    /\ op = "none"
    /\ result = None

CallMatchDefPath ==
    /\ op' = "match_def_path"
    /\ result' = match_def_path(def_id, path)
    /\ UNCHANGED inputs

CallMatchMarkerType ==
    /\ op' = "match_marker_type"
    /\ result' = match_marker_type(expr, marker_type)
    /\ UNCHANGED inputs

CallExtractStrings ==
    /\ op' = "extract_strings"
    /\ result' = extract_strings(expr)
    /\ UNCHANGED inputs

CallExtractAttrs ==
    /\ op' = "extract_attrs"
    /\ result' = extract_attrs(expr)
    /\ UNCHANGED inputs

Next ==
    \/ CallMatchDefPath
    \/ CallMatchMarkerType
    \/ CallExtractStrings
    \/ CallExtractAttrs

Spec == Init /\ [][Next]_vars

(***************************************************************************)
(* Vocabulary of the properties.                                           *)
(***************************************************************************)
IsPathCall(e) == e.node = "ExprCall" /\ e.callee.node = "ExprPath"

ResolvesTo(e, names) ==
    /\ IsPathCall(e)
    /\ e.callee.def.kind \in ItemDefKinds
    /\ e.callee.def.names = names

IsMarkerCall(e, kind) == ResolvesTo(e, <<"maud", "marker", kind>>)

IsStrictPrefix(q, p) == Len(q) < Len(p) /\ q = SubSeq(p, 1, Len(q))

DifferInOne(p, q) ==
    /\ Len(p) = Len(q)
    /\ Cardinality({i \in 1..Len(p) : p[i] # q[i]}) = 1

RECURSIVE Concat(_)
Concat(ss) == IF ss = <<>> THEN <<>> ELSE Head(ss) \o Concat(Tail(ss))

RemoveAt(s, i) == SubSeq(s, 1, i - 1) \o SubSeq(s, i + 1, Len(s))

IsSemi(stmt) == stmt.kind = "StmtSemi"

IsAttrStmt(stmt) == IsSemi(stmt) /\ IsMarkerCall(stmt.expr, "attribute")

HasAttrPair(stmt) ==
    /\ IsAttrStmt(stmt)
    /\ Len(stmt.expr.args) >= 1
    /\ extract_strings(stmt.expr.args[1]).tag = "Some"

RECURSIVE ExpectedPairs(_)
ExpectedPairs(stmts) ==
    IF stmts = <<>> THEN <<>>
    ELSE IF HasAttrPair(Head(stmts))
         THEN <<extract_strings(Head(stmts).expr.args[1]).val>> \o ExpectedPairs(Tail(stmts))
         ELSE ExpectedPairs(Tail(stmts))

FirstArgOnly(stmt) ==
    IF stmt.expr.node = "ExprCall" /\ Len(stmt.expr.args) > 1
    THEN Stmt(stmt.kind, ExprCall(stmt.expr.callee, SubSeq(stmt.expr.args, 1, 1)))
    ELSE stmt

\* C1: match_def_path(id, Q) is true exactly when the absolute path P of id
\* and Q are the same sequence of segments; a strict prefix of P, an extension
\* of P and a path differing from P in one segment all give false.
C1_PathIdentity ==
    op = "match_def_path" =>
        /\ result = (push_item_path(def_id) = path)
        /\ IsStrictPrefix(path, push_item_path(def_id)) => result = FALSE
        /\ IsStrictPrefix(push_item_path(def_id), path) => result = FALSE
        /\ DifferInOne(push_item_path(def_id), path) => result = FALSE

C1_Witness ==
    /\ op = "match_def_path"
    /\ def_id = <<"maud", "marker", "attribute">>
    /\ path = <<"maud", "marker">>
    /\ result = FALSE

\* C2: match_marker_type returns Some exactly for a call whose callee is a
\* bare path resolving to maud::marker::<kind>, and then the value is the
\* call's whole argument list in order; a literal, a method call and a call
\* through a callee that is not a bare path give None for every kind.
C2_MarkerRecognition ==
    op = "match_marker_type" =>
        /\ (result.tag = "Some") = IsMarkerCall(expr, marker_type)
        /\ result.tag = "Some" => result.val = expr.args
        /\ ~IsPathCall(expr) => result = None

C2_Witness ==
    /\ op = "match_marker_type"
    /\ marker_type = "attribute"
    /\ IsMarkerCall(expr, "attribute")
    /\ Len(expr.args) = 2
    /\ result = Some(expr.args)

\* C3: for an immutable borrow of a non-empty array of cooked string
\* literals, extract_strings returns the concatenation of the texts in
\* element order with a span that runs from the start of the first fragment
\* to the end of the last and covers every fragment.
C3_Concatenation ==
    (/\ op = "extract_strings"
     /\ IsBorrowedArray(expr)
     /\ Len(expr.inner.elems) >= 1
     /\ \A i \in 1..Len(expr.inner.elems) : IsCookedStr(expr.inner.elems[i]))
    => LET el == expr.inner.elems
           n == Len(el)
       IN  /\ result.tag = "Some"
           /\ result.val[1] = Concat([i \in 1..n |-> el[i].lit.s])
           /\ result.val[2] = Span(el[1].lit.span.lo, el[n].lit.span.hi)
           /\ \A i \in 1..n : /\ result.val[2].lo <= el[i].lit.span.lo
                              /\ el[i].lit.span.hi <= result.val[2].hi

C3_Witness ==
    /\ op = "extract_strings"
    /\ expr = ExprAddrOf("MutImmutable",
                  ExprArray(<<LitStr(<<"a", "b">>, "Cooked", Span(0, 2)),
                              LitStr(<<"c", "d">>, "Cooked", Span(2, 4))>>))
    /\ result = Some(<<<<"a", "b", "c", "d">>, Span(0, 4)>>)

\* C4: when some element of the borrowed array is not a cooked string
\* literal, at whatever position, extract_strings returns None.
C4_NoPartialString ==
    (/\ op = "extract_strings"
     /\ IsBorrowedArray(expr)
     /\ \E i \in 1..Len(expr.inner.elems) : ~IsCookedStr(expr.inner.elems[i]))
    => result = None

C4_Witness ==
    /\ op = "extract_strings"
    /\ IsBorrowedArray(expr)
    /\ Len(expr.inner.elems) = 3
    /\ IsCookedStr(expr.inner.elems[1])
    /\ IsCookedStr(expr.inner.elems[2])
    /\ expr.inner.elems[3].node = "ExprLit"
    /\ expr.inner.elems[3].lit.kind = "Int"
    /\ result = None

\* C5: an immutable borrow of an array literal with no elements gives None.
C5_EmptyArray ==
    (/\ op = "extract_strings"
     /\ IsBorrowedArray(expr)
     /\ Len(expr.inner.elems) = 0)
    => result = None

C5_Witness ==
    /\ op = "extract_strings"
    /\ expr = ExprAddrOf("MutImmutable", ExprArray(<<>>))
    /\ result = None

\* C6: for a block, extract_attrs returns Some(list) with exactly one pair,
\* in statement order, for each semicolon-terminated call of
\* maud::marker::attribute whose first argument extract_strings accepts;
\* every other statement is left out without aborting the extraction.
C6_OrderAndLeniency ==
    (op = "extract_attrs" /\ expr.node = "ExprBlock")
    => result = Some(ExpectedPairs(expr.stmts))

\* C7: extract_attrs returns None exactly when its input is not a block, and
\* every block gives Some(list).
C7_BlockGate ==
    op = "extract_attrs" =>
        /\ (result = None) = (expr.node # "ExprBlock")
        /\ expr.node = "ExprBlock" => result.tag = "Some"

\* C8: for every call whose callee is a bare path, whatever the path
\* resolves to, match_marker_type ends with Some or None and raises no
\* fault; a call through a value named by a bare path gives None.
C8_Total ==
    (op = "match_marker_type" /\ IsPathCall(expr)) =>
        /\ result.tag \in {"Some", "None"}
        /\ expr.callee.def.kind \in ValueDefKinds => result = None

\* C9: in a block, a recognized attribute call with no argument, or whose
\* first argument extract_strings rejects, adds no pair and does not make
\* the result None: the result is that of the block without the statement.
\* Only the first argument is read: cutting every call down to its first
\* argument leaves the result unchanged.
C9_SkippedAttribute ==
    (op = "extract_attrs" /\ expr.node = "ExprBlock") =>
        /\ result # None
        /\ \A i \in 1..Len(expr.stmts) :
              (IsAttrStmt(expr.stmts[i]) /\ ~HasAttrPair(expr.stmts[i]))
              => result = extract_attrs(ExprBlock(RemoveAt(expr.stmts, i), expr.tail))
        /\ result = extract_attrs(ExprBlock([i \in 1..Len(expr.stmts) |-> FirstArgOnly(expr.stmts[i])],
                                            expr.tail))

C9_Witness ==
    /\ op = "extract_attrs"
    /\ expr = Block(<<GoodShape, Shape("StmtSemi", "attribute", <<"num", "one">>), GoodShape>>, None)
    /\ result.tag = "Some"
    /\ Len(result.val) = 2
    /\ result.val[1][1] = Key(1)
    /\ result.val[2][1] = Key(3)

\* C10: only the semicolon-terminated expression statements of the block
\* are read: the tail expression, expression statements without semicolon
\* and declaration statements never add a pair, so the list is no longer
\* than the number of semicolon-terminated expression statements.
C10_OnlySemiStatements ==
    (op = "extract_attrs" /\ expr.node = "ExprBlock") =>
        /\ result = extract_attrs(ExprBlock(SelectSeq(expr.stmts, IsSemi), None))
        /\ result.tag = "Some" => Len(result.val) <= Len(SelectSeq(expr.stmts, IsSemi))

C10_Witness ==
    /\ op = "extract_attrs"
    /\ expr.node = "ExprBlock"
    /\ Len(expr.stmts) = 2
    /\ expr.stmts[1].kind = "StmtExpr"
    /\ expr.stmts[2].kind = "StmtDecl"
    /\ IsMarkerCall(expr.stmts[1].expr, "attribute")
    /\ IsMarkerCall(expr.stmts[2].expr, "attribute")
    /\ expr.tail.tag = "Some"
    /\ result = Some(<<>>)

====
